---- MODULE Spec2Model ----
(***************************************************************************)
(* Model of nginx-hysteria2-modified.py: the Hysteria2 configuration       *)
(* synthesis (create_config), the nginx front-proxy deployment             *)
(* (setup_nginx_smart_proxy) and the install pipeline that drives them     *)
(* (main).                                                                 *)
(***************************************************************************)
EXTENDS Integers, Sequences, FiniteSets, TLC

\* ------------------------------------------------------------------ bounds

\* Ports are sampled within this distance of every boundary value below.
PortSlack == 1
\* Number of create_config calls observed in one behaviour of SpecSynth.
MaxCalls == 2

\* ----------------------------------------------------------------- helpers

Max(a, b) == IF a >= b THEN a ELSE b
Min(a, b) == IF a <= b THEN a ELSE b

\* Python's None
NoneVal == "None"

\* Python truthiness of an optional string: None and "" are falsy.
Truthy(s) == s # NoneVal /\ s # ""

\* Values around which the code's behaviour changes.
PortBoundaries ==
    {0, 80, 443, 1024, 1030, 1049, 1074, 8080, 8443, 9999,
     17205, 39670, 54116, 65510, 65535}

\* The uint16 ports the model draws from.
Ports ==
    UNION {Max(0, b - PortSlack) .. Min(65535, b + PortSlack) : b \in PortBoundaries}

\* ----------------------------------------------------- create_config (pure)

\* Directories that exist on disk (os.path.exists).
ExistingDirs == {"/srv/www", "/root/.hysteria2/web"}
path_exists(p) == p \in ExistingDirs

\* Values of custom_web_dir: not given, empty, existing, missing.
WebDirs == {NoneVal, "", "/srv/www", "/missing"}

\* Values of obfs_password: not given, empty, set.
ObfsPasswords == {NoneVal, "", "s3cret"}

\* Mutant of port_start_clamped: the window starts one port late.
port_start_clamped_narrow(port) == Max(1024, port - 24)

\* line 806: port_start = max(1024, port - 25)
port_start_clamped(port) == Max(1024, port - 25)

\* Mutant of port_end_clamped: the offset is subtracted instead of added.
port_end_clamped_signslip(port) == Min(65535, port - 25)

\* line 807: port_end = min(65535, port + 25)
port_end_clamped(port) == Min(65535, port + 25)

\* lines 810-812: the fixed window for a base port below 1024 + 25
port_start(port) == IF port < 1049 THEN 1024 ELSE port_start_clamped(port)

\* Mutant of port_end: the low-end override of the end is forgotten.
port_end_no_override(port) == Min(65535, port + 25)

port_end(port) == IF port < 1049 THEN 1074 ELSE port_end_clamped(port)

\* Mutant of port_hopping_block: the block records the start of the range
\* as the port listened on.
port_hopping_block_range_start(port) ==
    [enabled |-> TRUE,
     range_start |-> port_start(port),
     range_end |-> port_end(port),
     listen_port |-> port_start(port)]

\* lines 818-823: config["_port_hopping"]
port_hopping_block(port) ==
    [enabled |-> TRUE,
     range_start |-> port_start(port),
     range_end |-> port_end(port),
     listen_port |-> port]

\* lines 829-834: config["obfs"]
obfs_block(obfs_password) ==
    [type |-> "salamander", salamander |-> [password |-> obfs_password]]

\* lines 872-878: masquerade_sites
masquerade_sites ==
    <<"https://www.microsoft.com",
      "https://www.apple.com",
      "https://www.amazon.com",
      "https://www.github.com",
      "https://www.stackoverflow.com">>

file_masquerade(dir) == [type |-> "file", file |-> [dir |-> dir]]

\* Mutant of proxy_masquerade: the file variant is populated as well.
proxy_masquerade_both(url) ==
    [type |-> "proxy",
     proxy |-> [url |-> url, rewriteHost |-> TRUE],
     file |-> [dir |-> "/var/www/html"]]

proxy_masquerade(url) ==
    [type |-> "proxy", proxy |-> [url |-> url, rewriteHost |-> TRUE]]

\* lines 839 and 856: enable_web_masquerade and custom_web_dir and
\* os.path.exists(custom_web_dir)
web_dir_usable(enable_web_masquerade, custom_web_dir) ==
    enable_web_masquerade /\ Truthy(custom_web_dir) /\ path_exists(custom_web_dir)

\* Mutant of well_known_ports: 8443 is left out.
well_known_ports_short == {80, 443, 8080}

\* line 863: port in [80, 443, 8080, 8443]
well_known_ports == {80, 443, 8080, 8443}

\* Mutant of masquerade: the port test comes first in the chain.
masquerade_port_first(port, enable_web_masquerade, custom_web_dir, enable_http3_masquerade, choice) ==
    IF port \in {80, 443, 8080, 8443}
    THEN proxy_masquerade("https://www.microsoft.com")
    ELSE IF enable_http3_masquerade
    THEN IF enable_web_masquerade /\ Truthy(custom_web_dir)
            /\ path_exists(custom_web_dir)
         THEN file_masquerade(custom_web_dir)
         ELSE proxy_masquerade("https://www.google.com")
    ELSE IF enable_web_masquerade /\ Truthy(custom_web_dir)
            /\ path_exists(custom_web_dir)
    THEN file_masquerade(custom_web_dir)
    ELSE proxy_masquerade(masquerade_sites[choice])

\* Mutant of masquerade: the http3 branch never looks at the web root.
masquerade_http3_first(port, enable_web_masquerade, custom_web_dir, enable_http3_masquerade, choice) ==
    IF enable_http3_masquerade
    THEN proxy_masquerade("https://www.google.com")
    ELSE IF enable_web_masquerade /\ Truthy(custom_web_dir)
            /\ path_exists(custom_web_dir)
    THEN file_masquerade(custom_web_dir)
    ELSE IF port \in {80, 443, 8080, 8443}
    THEN proxy_masquerade("https://www.microsoft.com")
    ELSE proxy_masquerade(masquerade_sites[choice])

\* lines 838-886: config["masquerade"]; choice is the index random.choice
\* draws from masquerade_sites.
masquerade(port, enable_web_masquerade, custom_web_dir, enable_http3_masquerade, choice) ==
    IF enable_http3_masquerade
    THEN IF web_dir_usable(enable_web_masquerade, custom_web_dir)
         THEN file_masquerade(custom_web_dir)
         ELSE proxy_masquerade("https://www.google.com")
    ELSE IF web_dir_usable(enable_web_masquerade, custom_web_dir)
    THEN file_masquerade(custom_web_dir)
    ELSE IF port \in well_known_ports
    THEN proxy_masquerade("https://www.microsoft.com")
    ELSE proxy_masquerade(masquerade_sites[choice])

\* Whether the call reaches random.choice (line 883).
draws_random(port, enable_web_masquerade, custom_web_dir, enable_http3_masquerade) ==
    /\ ~enable_http3_masquerade
    /\ ~web_dir_usable(enable_web_masquerade, custom_web_dir)
    /\ port \notin well_known_ports

\* Mutant of optimized_ports: 39670 is left out.
optimized_ports_short == {54116, 17205}

\* line 889: port in [54116, 17205, 39670]
optimized_ports == {54116, 17205, 39670}

\* lines 890-898: config["quic"]
quic_block ==
    [initStreamReceiveWindow |-> 8388608,
     maxStreamReceiveWindow |-> 8388608,
     initConnReceiveWindow |-> 20971520,
     maxConnReceiveWindow |-> 20971520,
     maxIdleTimeout |-> "30s",
     maxIncomingStreams |-> 1024,
     disablePathMTUDiscovery |-> FALSE]

\* lines 770-801: the base document (log and resolver are constants of the
\* code and are left out of the record).
base_config(port, password, cert_path, key_path) ==
    [listen |-> port,
     tls |-> [cert |-> cert_path, key |-> key_path],
     auth |-> [type |-> "password", password |-> password],
     bandwidth |-> [up |-> "1000 mbps", down |-> "1000 mbps"]]

\* lines 766-904: the document create_config dumps to config.json. A key of
\* the Python dict is a field of the record; an absent key is an absent field.
create_config(port, password, cert_path, key_path, enable_web_masquerade, custom_web_dir, enable_port_hopping, obfs_password, enable_http3_masquerade, choice) ==
    LET c0 == base_config(port, password, cert_path, key_path)
        c1 == IF enable_port_hopping
              THEN c0 @@ [port_hopping |-> port_hopping_block(port)]
              ELSE c0
        c2 == IF Truthy(obfs_password)
              THEN c1 @@ [obfs |-> obfs_block(obfs_password)]
              ELSE c1
        c3 == c2 @@ [masquerade |->
                        masquerade(port, enable_web_masquerade, custom_web_dir,
                                   enable_http3_masquerade, choice)]
    IN  IF port \in optimized_ports THEN c3 @@ [quic |-> quic_block] ELSE c3

\* ------------------------------------------------------------------- state

VARIABLES
    synArgs,        \* SpecSynth: the arguments create_config is called with
    synOut,         \* SpecSynth: the documents its calls produced, in order
    pc,             \* position of the install run in main / setup_nginx_smart_proxy
    args,           \* main: the parsed arguments after lines 1051-1072
    nginxConf,      \* host: /etc/nginx/nginx.conf
    nginxBackup,    \* host: /etc/nginx/nginx.conf.backup
    configFile,     \* host: ~/.hysteria2/config/config.json
    accepted,       \* host: the documents `nginx -t` accepts
    initialConf,    \* host: nginx.conf before the first run
    nginx_conf,     \* setup_nginx_smart_proxy: the rendered document
    preConf,        \* the live document when setup_nginx_smart_proxy was entered
    test_failed,    \* this run's `nginx -t` returned non-zero
    restart_failed, \* this run's `systemctl restart nginx` returned non-zero
    nginx_success,  \* main: first component of setup_nginx_smart_proxy's result
    config_link,    \* main: the client link (its components)
    report,         \* how the run ended, as its caller sees it
    crashed,        \* some run of this behaviour was killed half-way
    cert_kind,      \* main: the kind of certificate the run deployed
    config_overwritten, \* this run replaced an existing config.json by another document
    crashPre,       \* when the previous invocation (or this one) was killed
                    \* between its write and its nginx -t: the document that
                    \* was live before that invocation
    linkIn,         \* SpecLink: the values the client link is built from
    linkStr,        \* SpecLink: the link, as a sequence of characters
    linkParsed      \* SpecLink: what a URI parser reads back from the link

synVars == <<synArgs, synOut>>

hostVars == <<nginxConf, nginxBackup, configFile, accepted, initialConf>>

runVars ==
    <<pc, args, nginx_conf, preConf, test_failed, restart_failed,
      nginx_success, config_link, report, crashed>>

histVars == <<cert_kind, config_overwritten, crashPre>>

linkVars == <<linkIn, linkStr, linkParsed>>

vars == <<synVars, hostVars, runVars, histVars, linkVars>>

\* A file that does not exist, a value not yet computed.
NoFile == [absent |-> TRUE]

NoArgs == [absent |-> TRUE]

NoLink == [absent |-> TRUE]

\* ------------------------------------------- SpecSynth: create_config calls

SynArgs ==
    [port : Ports,
     enable_web_masquerade : BOOLEAN,
     custom_web_dir : WebDirs,
     enable_port_hopping : BOOLEAN,
     obfs_password : ObfsPasswords,
     enable_http3_masquerade : BOOLEAN]

SynInit ==
    /\ synArgs \in SynArgs
    /\ synOut = <<>>
    /\ pc = "idle"
    /\ args = NoArgs
    /\ nginxConf = NoFile
    /\ nginxBackup = NoFile
    /\ configFile = NoFile
    /\ accepted = {}
    /\ initialConf = NoFile
    /\ nginx_conf = NoFile
    /\ preConf = NoFile
    /\ test_failed = FALSE
    /\ restart_failed = FALSE
    /\ nginx_success = FALSE
    /\ config_link = NoLink
    /\ report = "none"
    /\ crashed = FALSE
    /\ cert_kind = "none"
    /\ config_overwritten = FALSE
    /\ crashPre = NoFile
    /\ linkIn = NoArgs
    /\ linkStr = <<>>
    /\ linkParsed = NoArgs

\* One call of create_config with the arguments of synArgs. random.choice
\* draws from the process-wide generator, which the program never seeds: the
\* index is any of the list's.
CallCreateConfig ==
    /\ Len(synOut) < MaxCalls
    /\ \E choice \in 1..Len(masquerade_sites) :
          /\ (~draws_random(synArgs.port, synArgs.enable_web_masquerade,
                             synArgs.custom_web_dir,
                             synArgs.enable_http3_masquerade) => choice = 1)
          /\ synOut' = Append(synOut,
                create_config(synArgs.port, "pw", "server.crt", "server.key",
                              synArgs.enable_web_masquerade,
                              synArgs.custom_web_dir,
                              synArgs.enable_port_hopping,
                              synArgs.obfs_password,
                              synArgs.enable_http3_masquerade, choice))
    /\ UNCHANGED <<synArgs, hostVars, runVars>>
    /\ UNCHANGED <<histVars, linkVars>>

SynNext == CallCreateConfig

SpecSynth == SynInit /\ [][SynNext]_vars

\* ------------------------------------------------ the install run (main)

\* line 1041: allowed_ports
allowed_ports == {54116, 17205, 39670}

\* The ports an install run is started with: one of the allowed ports and
\* one outside them.
RunPorts == {9999, 54116}

\* main's fixed paths: base_dir/web (create_web_masquerade) and the
\* certificate pair of generate_self_signed_cert.
web_dir == "/root/.hysteria2/web"

cert_path == "/root/.hysteria2/cert/server.crt"

key_path == "/root/.hysteria2/cert/server.key"

\* line 1076: the default password
default_password == "123qwe!@#QWE"

\* The server address of the run (--ip).
server_address == "203.0.113.7"

\* The document found on a host nginx was installed on.
DistroConf == [user |-> "www-data", listen |-> 80, root |-> "/usr/share/nginx/html"]

\* lines 380-417: the document setup_nginx_smart_proxy renders. The TLS
\* listen port is the literal 54116 of line 398; hysteria_port is not used.
render_nginx_conf(nginx_user, cert, key, root, hysteria_port) ==
    [user |-> nginx_user,
     listen |-> 80,
     listen_ssl |-> 54116,
     ssl_certificate |-> cert,
     ssl_certificate_key |-> key,
     root |-> root]

\* The documents a run can render (ensure_nginx_user returns nginx or root).
NginxUsers == {"nginx", "root"}

RenderedConfs ==
    {render_nginx_conf(u, cert_path, key_path, web_dir, p) : u \in NginxUsers, p \in RunPorts}

\* lines 434-435: `nginx -t` exits 0 iff the host's nginx accepts the live
\* document.
nginx_test_ok(doc) == doc \in accepted

\* Mutant of build_config_link: the obfuscation parameters are never added.
build_config_link_no_obfs(a) ==
    [password |-> a.password, address |-> server_address, port |-> a.port,
     insecure |-> IF a.use_real_cert THEN "0" ELSE "1", sni |-> server_address,
     obfs |-> NoneVal, obfs_password |-> NoneVal]

\* lines 1137-1147: the components of config_link.
build_config_link(a) ==
    [password |-> a.password,
     address |-> server_address,
     port |-> a.port,
     insecure |-> IF a.use_real_cert THEN "0" ELSE "1",
     sni |-> server_address,
     obfs |-> IF Truthy(a.obfs_password) THEN "salamander" ELSE NoneVal,
     obfs_password |-> IF Truthy(a.obfs_password) THEN a.obfs_password ELSE NoneVal]

Init ==
    /\ synArgs = NoArgs
    /\ synOut = <<>>
    /\ pc = "idle"
    /\ args = NoArgs
    /\ nginxConf \in {NoFile, DistroConf}
    /\ nginxBackup = NoFile
    /\ configFile = NoFile
    /\ accepted \in SUBSET (RenderedConfs \cup {DistroConf})
    /\ initialConf = nginxConf
    /\ nginx_conf = NoFile
    /\ preConf = NoFile
    /\ test_failed = FALSE
    /\ restart_failed = FALSE
    /\ nginx_success = FALSE
    /\ config_link = NoLink
    /\ report = "none"
    /\ crashed = FALSE
    /\ cert_kind = "none"
    /\ config_overwritten = FALSE
    /\ crashPre = NoFile
    /\ linkIn = NoArgs
    /\ linkStr = <<>>
    /\ linkParsed = NoArgs

\* The locals of a run before it has computed anything.
FreshRun ==
    /\ nginx_conf' = NoFile
    /\ preConf' = NoFile
    /\ test_failed' = FALSE
    /\ restart_failed' = FALSE
    /\ nginx_success' = FALSE
    /\ config_link' = NoLink
    /\ cert_kind' = "none"
    /\ config_overwritten' = FALSE

\* lines 1041-1048: a port outside allowed_ports that the user does not
\* confirm ends the run before anything is done.
StartCancelled ==
    /\ pc = "idle"
    /\ \E port \in RunPorts : port \notin allowed_ports
    /\ FreshRun
    /\ args' = NoArgs
    /\ report' = "cancelled"
    /\ pc' = "done"
    /\ UNCHANGED <<synVars, hostVars, crashed>>
    /\ UNCHANGED <<crashPre, linkVars>>

\* lines 1051-1059: --simple without --obfs-password reads the name random,
\* which the import of line 1069 makes local to main: UnboundLocalError.
StartSimpleUnbound ==
    /\ pc = "idle"
    /\ FreshRun
    /\ args' = NoArgs
    /\ report' = "traceback"
    /\ pc' = "done"
    /\ UNCHANGED <<synVars, hostVars, crashed>>
    /\ UNCHANGED <<crashPre, linkVars>>

\* lines 1039-1090: the arguments of a run that goes on, after --simple and
\* --one-click have set their defaults.
Start ==
    /\ pc = "idle"
    /\ \E port \in RunPorts, port_hopping \in BOOLEAN, http3_masquerade \in BOOLEAN,
          obfs_password \in {NoneVal, "s3cret"}, simple \in BOOLEAN,
          one_click \in BOOLEAN, use_real_cert \in BOOLEAN :
          /\ ~(simple /\ ~Truthy(obfs_password))
          /\ args' =
                [port |-> port,
                 password |-> default_password,
                 port_hopping |-> port_hopping \/ simple \/ one_click,
                 http3_masquerade |-> http3_masquerade \/ simple \/ one_click,
                 obfs_password |->
                    IF one_click /\ ~Truthy(obfs_password)
                    THEN "Zk3Gq81xTbV0aYw7"
                    ELSE obfs_password,
                 web_masquerade |-> TRUE,
                 auto_nginx |-> TRUE,
                 use_real_cert |-> use_real_cert]
    /\ FreshRun
    /\ report' = "none"
    /\ pc' = "prereq"
    /\ UNCHANGED <<synVars, hostVars, crashed>>
    /\ UNCHANGED <<crashPre, linkVars>>

\* lines 1092-1112: directories, download, web pages and certificate are in
\* place.
PrerequisitesReady ==
    /\ pc = "prereq"
    /\ pc' = "config"
    /\ UNCHANGED <<synVars, hostVars, args, nginx_conf, preConf, test_failed,
                   restart_failed, nginx_success, config_link, report, crashed>>
    /\ cert_kind' = "self_signed"
    /\ UNCHANGED <<config_overwritten, crashPre, linkVars>>

\* lines 1101-1106, 762-764: the download or openssl fails: sys.exit(1).
PrerequisitesFail ==
    /\ pc = "prereq"
    /\ report' = "exit1"
    /\ pc' = "done"
    /\ UNCHANGED <<synVars, hostVars, args, nginx_conf, preConf, test_failed,
                   restart_failed, nginx_success, config_link, crashed>>
    /\ UNCHANGED <<histVars, linkVars>>

\* lines 1115-1117, 900-904: create_config opens config.json for writing and
\* dumps the document.
WriteConfig ==
    /\ pc = "config"
    /\ configFile' =
          create_config(args.port, args.password, cert_path, key_path,
                        args.web_masquerade, web_dir, args.port_hopping,
                        args.obfs_password, args.http3_masquerade, 1)
    /\ pc' = "render"
    /\ UNCHANGED <<synVars, nginxConf, nginxBackup, accepted, initialConf, args, nginx_conf,
                   preConf, test_failed, restart_failed, nginx_success,
                   config_link, report, crashed>>
    /\ config_overwritten' = (configFile # NoFile /\ configFile' # configFile)
    /\ UNCHANGED <<cert_kind, crashPre, linkVars>>

\* lines 1127-1130, 357-417: setup_nginx_smart_proxy is entered and renders
\* the document for the user ensure_nginx_user returned.
Render ==
    /\ pc = "render"
    /\ \E u \in NginxUsers :
          nginx_conf' = render_nginx_conf(u, cert_path, key_path, web_dir, args.port)
    /\ preConf' = nginxConf
    /\ pc' = "backup"
    /\ UNCHANGED <<synVars, hostVars, args, test_failed, restart_failed,
                   nginx_success, config_link, report, crashed>>
    /\ UNCHANGED <<histVars, linkVars>>

\* Mutant of Backup: the run goes on to write without copying nginx.conf.
Backup_no_copy ==
    /\ pc = "backup"
    /\ pc' = "write"
    /\ UNCHANGED <<synVars, hostVars, args, nginx_conf, preConf, test_failed,
                   restart_failed, nginx_success, config_link, report, crashed>>
    /\ UNCHANGED <<histVars, linkVars>>

\* line 421: cp nginx.conf nginx.conf.backup
Backup ==
    /\ pc = "backup"
    /\ nginxConf # NoFile
    /\ nginxBackup' = nginxConf
    /\ pc' = "write"
    /\ UNCHANGED <<synVars, nginxConf, configFile, accepted, initialConf, args, nginx_conf,
                   preConf, test_failed, restart_failed, nginx_success,
                   config_link, report, crashed>>
    /\ UNCHANGED <<histVars, linkVars>>

\* lines 424-428: the rendered document is copied over nginx.conf.
Write ==
    /\ pc = "write"
    /\ nginxConf' = nginx_conf
    /\ pc' = "rm"
    /\ UNCHANGED <<synVars, nginxBackup, configFile, accepted, initialConf, args, nginx_conf,
                   preConf, test_failed, restart_failed, nginx_success,
                   config_link, report, crashed>>
    /\ UNCHANGED <<histVars, linkVars>>

\* line 430: rm -f of the literal path /etc/nginx/conf.d/*.conf (no shell
\* expands the star): no file of the model changes.
RemoveConfD ==
    /\ pc = "rm"
    /\ pc' = "test"
    /\ UNCHANGED <<synVars, hostVars, args, nginx_conf, preConf, test_failed,
                   restart_failed, nginx_success, config_link, report, crashed>>
    /\ UNCHANGED <<histVars, linkVars>>

\* lines 421-430, 457-459: a command run with check=True exits non-zero
\* (the backup's source is missing, sudo refuses, the disk is full): the
\* exception handler returns (False, None). The failed command changes no
\* file.
StepRaises ==
    /\ pc \in {"backup", "write", "rm"}
    /\ nginx_success' = FALSE
    /\ pc' = "link"
    /\ UNCHANGED <<synVars, hostVars, args, nginx_conf, preConf, test_failed,
                   restart_failed, config_link, report, crashed>>
    /\ UNCHANGED <<histVars, linkVars>>

\* lines 434, 442: nginx -t accepts the live document.
TestOk ==
    /\ pc = "test"
    /\ nginx_test_ok(nginxConf)
    /\ pc' = "restart"
    /\ UNCHANGED <<synVars, hostVars, args, nginx_conf, preConf, test_failed,
                   restart_failed, nginx_success, config_link, report, crashed>>
    /\ UNCHANGED <<histVars, linkVars>>

\* Mutant of TestFails: the rejection is noted and the run goes on to the
\* restart.
TestFails_then_restart ==
    /\ pc = "test"
    /\ ~nginx_test_ok(nginxConf)
    /\ test_failed' = TRUE
    /\ pc' = "restart"
    /\ UNCHANGED <<synVars, hostVars, args, nginx_conf, preConf, restart_failed,
                   nginx_success, config_link, report, crashed>>
    /\ UNCHANGED <<histVars, linkVars>>

\* lines 434-437: nginx -t rejects the live document.
TestFails ==
    /\ pc = "test"
    /\ ~nginx_test_ok(nginxConf)
    /\ test_failed' = TRUE
    /\ pc' = "restore"
    /\ UNCHANGED <<synVars, hostVars, args, nginx_conf, preConf, restart_failed,
                   nginx_success, config_link, report, crashed>>
    /\ UNCHANGED <<histVars, linkVars>>

\* lines 438-440: the backup is copied back and (False, None) returned.
Restore ==
    /\ pc = "restore"
    /\ nginxConf' = nginxBackup
    /\ nginx_success' = FALSE
    /\ pc' = "link"
    /\ UNCHANGED <<synVars, nginxBackup, configFile, accepted, initialConf, args, nginx_conf,
                   preConf, test_failed, restart_failed, config_link, report,
                   crashed>>
    /\ UNCHANGED <<histVars, linkVars>>

\* lines 438, 457-459: the copy back exits non-zero: the handler returns
\* (False, None) and nginx.conf stays as written.
RestoreRaises ==
    /\ pc = "restore"
    /\ nginx_success' = FALSE
    /\ pc' = "link"
    /\ UNCHANGED <<synVars, hostVars, args, nginx_conf, preConf, test_failed,
                   restart_failed, config_link, report, crashed>>
    /\ UNCHANGED <<histVars, linkVars>>

\* lines 445, 451-455: systemctl restart nginx succeeds: (True, port).
RestartOk ==
    /\ pc = "restart"
    /\ nginx_success' = TRUE
    /\ pc' = "link"
    /\ UNCHANGED <<synVars, hostVars, args, nginx_conf, preConf, test_failed,
                   restart_failed, config_link, report, crashed>>
    /\ UNCHANGED <<histVars, linkVars>>

\* Mutant of RestartFails: a failed restart copies the backup back.
RestartFails_rolls_back ==
    /\ pc = "restart"
    /\ restart_failed' = TRUE
    /\ nginx_success' = FALSE
    /\ nginxConf' = nginxBackup
    /\ pc' = "link"
    /\ UNCHANGED <<synVars, nginxBackup, configFile, accepted, initialConf, args,
                   nginx_conf, preConf, test_failed, config_link, report, crashed>>
    /\ UNCHANGED <<histVars, linkVars>>

\* lines 445-449: systemctl restart nginx fails: (False, None).
RestartFails ==
    /\ pc = "restart"
    /\ restart_failed' = TRUE
    /\ nginx_success' = FALSE
    /\ pc' = "link"
    /\ UNCHANGED <<synVars, hostVars, args, nginx_conf, preConf, test_failed,
                   config_link, report, crashed>>
    /\ UNCHANGED <<histVars, linkVars>>

\* lines 1136-1183: the link is built and the banner "安装成功" printed,
\* whatever nginx_success is; main returns and the process exits 0.
PrintResult ==
    /\ pc = "link"
    /\ config_link' = build_config_link(args)
    /\ report' = "installed"
    /\ pc' = "done"
    /\ UNCHANGED <<synVars, hostVars, args, nginx_conf, preConf, test_failed,
                   restart_failed, nginx_success, crashed>>
    /\ UNCHANGED <<histVars, linkVars>>

\* The process is killed between two steps of a run.
Crash ==
    /\ pc \notin {"idle", "done"}
    /\ report' = "killed"
    /\ crashed' = TRUE
    /\ pc' = "done"
    /\ UNCHANGED <<synVars, hostVars, args, nginx_conf, preConf, test_failed,
                   restart_failed, nginx_success, config_link>>
    /\ crashPre' = IF pc \in {"rm", "test"} THEN preConf ELSE NoFile
    /\ UNCHANGED <<cert_kind, config_overwritten, linkVars>>

\* The process has ended; the next invocation starts with nothing but the
\* host's files.
Exit ==
    /\ pc = "done"
    /\ FreshRun
    /\ args' = NoArgs
    /\ report' = "none"
    /\ pc' = "idle"
    /\ UNCHANGED <<synVars, hostVars, crashed>>
    /\ crashPre' = IF report = "killed" THEN crashPre ELSE NoFile
    /\ UNCHANGED linkVars

Next ==
    \/ StartCancelled
    \/ StartSimpleUnbound
    \/ Start
    \/ PrerequisitesReady
    \/ PrerequisitesFail
    \/ WriteConfig
    \/ Render
    \/ Backup
    \/ Write
    \/ RemoveConfD
    \/ StepRaises
    \/ TestOk
    \/ TestFails
    \/ Restore
    \/ RestoreRaises
    \/ RestartOk
    \/ RestartFails
    \/ PrintResult
    \/ Crash
    \/ Exit

Spec == Init /\ [][Next]_vars

\* --------------------------------------------- properties of create_config

\* The documents produced so far that carry the port-hopping block.
Hopping(i) == "port_hopping" \in DOMAIN synOut[i]

Calls == 1..Len(synOut)

\* C4 (as stated): with port hopping enabled, every listen port of the uint16
\* range lies inside the advertised range, range_start <= port <= range_end.
C4_ContainmentAllPorts ==
    \A i \in Calls :
        Hopping(i) =>
            /\ synOut[i].port_hopping.range_start <= synOut[i].listen
            /\ synOut[i].listen <= synOut[i].port_hopping.range_end

\* C4 (amended): with port hopping enabled, every listen port from 1024 to
\* 65535 lies inside the advertised range; a port below 1024 gets the fixed
\* window [1024, 1074], which does not contain it.
C4_ContainmentFrom1024 ==
    \A i \in Calls :
        (Hopping(i) /\ synOut[i].listen >= 1024) =>
            /\ synOut[i].port_hopping.range_start <= synOut[i].listen
            /\ synOut[i].listen <= synOut[i].port_hopping.range_end

\* C4 witness: port hopping was synthesized for the lowest contained port.
C4_Witness ==
    \E i \in Calls :
        /\ Hopping(i)
        /\ synOut[i].listen = 1024
        /\ synOut[i].port_hopping.range_start = 1024

\* C5 (as stated): with port hopping enabled, every port from 1049 to 65535
\* gets a range spanning at least 50 ports.
C5_SpanFrom1049 ==
    \A i \in Calls :
        (Hopping(i) /\ synOut[i].listen >= 1049 /\ synOut[i].listen <= 65535) =>
            synOut[i].port_hopping.range_end
                - synOut[i].port_hopping.range_start >= 50

\* C5 (amended): with port hopping enabled, every port from 1049 to 65510
\* gets a range spanning at least 50 ports; above 65510 the end is clamped to
\* 65535 and the span is 65535 - (port - 25) < 50.
C5_SpanUpTo65510 ==
    \A i \in Calls :
        (Hopping(i) /\ synOut[i].listen >= 1049 /\ synOut[i].listen <= 65510) =>
            synOut[i].port_hopping.range_end
                - synOut[i].port_hopping.range_start >= 50

\* C5 witness: port hopping was synthesized for the highest port whose range
\* is not clamped, and spans exactly 50.
C5_Witness ==
    \E i \in Calls :
        /\ Hopping(i)
        /\ synOut[i].listen = 65510
        /\ synOut[i].port_hopping.range_end = 65535
        /\ synOut[i].port_hopping.range_start = 65485

\* C6: with port hopping enabled and port < 1049, the advertised range is
\* exactly [1024, 1074].
C6_LowEndOverride ==
    \A i \in Calls :
        (Hopping(i) /\ synOut[i].listen < 1049) =>
            /\ synOut[i].port_hopping.range_start = 1024
            /\ synOut[i].port_hopping.range_end = 1074

\* C6 witness: port hopping was synthesized for port 1030.
C6_Witness ==
    \E i \in Calls : Hopping(i) /\ synOut[i].listen = 1030

\* C7 (as stated): http3 masquerade on and a web root supplied that exists on
\* disk gives the file masquerade of that web root, whatever the other flags
\* and the port.
C7_FileServeAnyFlags ==
    \A i \in Calls :
        (/\ synArgs.enable_http3_masquerade
         /\ Truthy(synArgs.custom_web_dir)
         /\ path_exists(synArgs.custom_web_dir)) =>
            synOut[i].masquerade = file_masquerade(synArgs.custom_web_dir)

\* C7 (amended): http3 masquerade on, web masquerade enabled
\* (enable_web_masquerade, the default) and a web root supplied that exists
\* on disk gives the file masquerade of that web root, whatever the
\* port-hopping flag, the obfuscation password and the port.
C7_FileServeWebEnabled ==
    \A i \in Calls :
        (/\ synArgs.enable_http3_masquerade
         /\ synArgs.enable_web_masquerade
         /\ Truthy(synArgs.custom_web_dir)
         /\ path_exists(synArgs.custom_web_dir)) =>
            synOut[i].masquerade = file_masquerade(synArgs.custom_web_dir)

\* C7 witness: rule 1 fired on a well-known port with the other features on.
C7_Witness ==
    \E i \in Calls :
        /\ synArgs.enable_http3_masquerade
        /\ synArgs.enable_web_masquerade
        /\ synArgs.custom_web_dir = "/srv/www"
        /\ synArgs.port = 443
        /\ synArgs.enable_port_hopping
        /\ Truthy(synArgs.obfs_password)
        /\ synOut[i].masquerade.type = "file"

\* C8: http3 masquerade off, no usable web root and a port of
\* {80, 443, 8080, 8443} gives the proxy masquerade of
\* https://www.microsoft.com with rewriteHost true.
C8_WellKnownPort ==
    \A i \in Calls :
        (/\ ~synArgs.enable_http3_masquerade
         /\ ~(/\ synArgs.enable_web_masquerade
              /\ Truthy(synArgs.custom_web_dir)
              /\ path_exists(synArgs.custom_web_dir))
         /\ synArgs.port \in {80, 443, 8080, 8443}) =>
            synOut[i].masquerade =
                [type |-> "proxy",
                 proxy |-> [url |-> "https://www.microsoft.com",
                            rewriteHost |-> TRUE]]

\* C8 witness: the call with http3 off, no web root and port 8443 was made.
C8_Witness ==
    \E i \in Calls :
        /\ ~synArgs.enable_http3_masquerade
        /\ synArgs.custom_web_dir = NoneVal
        /\ synArgs.port = 8443
        /\ synOut[i].masquerade.type = "proxy"

\* C9: two calls of create_config with the same arguments yield identical
\* documents (the function takes no seed: the arguments are all a caller
\* can hold equal).
C9_SameProfileSameConfig ==
    \A i, j \in Calls : synOut[i] = synOut[j]

\* ------------------------------------------- properties of the install run

\* setup_nginx_smart_proxy has returned to main, or main has returned: the
\* run has ended and was not killed.
RunEnded == pc = "link" \/ (pc = "done" /\ report = "installed")

\* C1: in a run where nginx -t rejected the freshly written document, the
\* live document at the end of the run equals the document that was live
\* before the run.
C1_RollbackRestoresPreRun ==
    (RunEnded /\ test_failed) => nginxConf = preConf

\* C2: starting from a live document nginx accepts, after any sequence of
\* runs that each ran to their end (none killed), with any step allowed to
\* fail, the live document is one nginx accepts.
C2_LiveConfAccepted ==
    (/\ initialConf # NoFile
     /\ initialConf \in accepted
     /\ ~crashed
     /\ pc \in {"idle", "link", "done"}) =>
        nginxConf \in accepted

\* C3: when nginx -t or the restart failed during a run, the run reports
\* failure: setup_nginx_smart_proxy returns False and main does not end
\* with its success report.
C3_FailureReported ==
    (pc = "done" /\ report # "killed" /\ (test_failed \/ restart_failed)) =>
        (~nginx_success /\ report # "installed")

\* C10: the front-proxy document a run has made live listens on plaintext
\* port 80 and, with TLS, on the run's port, which is also the port
\* config.json listens on and the port of the client link.
C10_SharedPort ==
    (pc = "done" /\ report = "installed" /\ nginx_success) =>
        /\ nginxConf = nginx_conf
        /\ nginxConf.listen = 80
        /\ nginxConf.listen_ssl = args.port
        /\ configFile.listen = args.port
        /\ config_link.port = args.port

\* C11: the client link of a finished run carries insecure=1 when the run
\* deployed a self-signed certificate, and insecure=0 only when it deployed
\* a certificate a client can verify.
C11_InsecureMatchesCert ==
    (pc = "done" /\ report = "installed") =>
        /\ cert_kind = "self_signed" => config_link.insecure = "1"
        /\ config_link.insecure = "0" => cert_kind = "real"

\* C13: the document listens on exactly the port it was given, with port
\* hopping or without; the port-hopping block is present exactly when the
\* flag is on, and when present its listen_port is the port listened on.
C13_SingleListenPort ==
    \A i \in Calls :
        /\ synOut[i].listen = synArgs.port
        /\ Hopping(i) <=> synArgs.enable_port_hopping
        /\ Hopping(i) => synOut[i].port_hopping.listen_port = synOut[i].listen

\* C13 witness: a call with port hopping on, on a port whose range does not
\* start at the port itself, recorded the port listened on.
C13_Witness ==
    \E i \in Calls :
        /\ synArgs.enable_port_hopping
        /\ Hopping(i)
        /\ synOut[i].port_hopping.range_start # synArgs.port
        /\ synOut[i].port_hopping.listen_port = synArgs.port

\* The call falls through to the last branch of the masquerade chain: http3
\* masquerade off, no usable web root, a port outside {80, 443, 8080, 8443}.
FallThrough ==
    /\ ~synArgs.enable_http3_masquerade
    /\ ~(/\ synArgs.enable_web_masquerade
         /\ Truthy(synArgs.custom_web_dir)
         /\ path_exists(synArgs.custom_web_dir))
    /\ synArgs.port \notin {80, 443, 8080, 8443}

\* C14: every document has a masquerade with exactly one variant populated,
\* the file one or the proxy one, agreeing with its type; every proxy
\* masquerade has rewriteHost true, and in the fall-through case its url is
\* one of the five candidate sites.
C14_OneVariant ==
    \A i \in Calls :
        /\ "masquerade" \in DOMAIN synOut[i]
        /\ LET m == synOut[i].masquerade
           IN  \/ /\ DOMAIN m = {"type", "file"}
                  /\ m.type = "file"
                  /\ DOMAIN m.file = {"dir"}
               \/ /\ DOMAIN m = {"type", "proxy"}
                  /\ m.type = "proxy"
                  /\ DOMAIN m.proxy = {"url", "rewriteHost"}
                  /\ m.proxy.rewriteHost = TRUE
                  /\ FallThrough =>
                        \E k \in 1..Len(masquerade_sites) :
                            m.proxy.url = masquerade_sites[k]

\* C14 witness: a fall-through call drew a site other than the first of the
\* list.
C14_Witness ==
    \E i \in Calls :
        /\ FallThrough
        /\ synOut[i].masquerade.type = "proxy"
        /\ synOut[i].masquerade.proxy.url = "https://www.github.com"

\* C15: at the end of a run, config.json has an obfs block exactly when the
\* run's obfuscation password is set, the block is salamander with that
\* password, and the client link carries obfs=salamander and obfs-password
\* exactly when config.json has the block (and neither parameter otherwise).
C15_ObfsPresence ==
    (pc = "done" /\ report = "installed") =>
        /\ "obfs" \in DOMAIN configFile <=> Truthy(args.obfs_password)
        /\ "obfs" \in DOMAIN configFile =>
              /\ configFile.obfs.type = "salamander"
              /\ configFile.obfs.salamander.password = args.obfs_password
              /\ config_link.obfs = "salamander"
              /\ config_link.obfs_password = args.obfs_password
        /\ "obfs" \notin DOMAIN configFile =>
              /\ config_link.obfs = NoneVal
              /\ config_link.obfs_password = NoneVal

\* C15 witness: a run given an obfuscation password ended with the block in
\* config.json and both parameters in the link.
C15_Witness ==
    /\ pc = "done"
    /\ report = "installed"
    /\ args.obfs_password = "s3cret"
    /\ "obfs" \in DOMAIN configFile
    /\ config_link.obfs = "salamander"

\* The run has overwritten nginx.conf and has not yet returned from
\* setup_nginx_smart_proxy.
Written == pc \in {"rm", "test", "restore", "restart"}

\* C16: whenever a run has overwritten nginx.conf, a document was live
\* before the run and nginx.conf.backup holds it: the copy to the backup
\* completed before the write, and a run that finds no nginx.conf never
\* writes one.
C16_BackupBeforeWrite ==
    Written => (preConf # NoFile /\ nginxBackup = preConf)

\* C16 witness: a run has just replaced the live document by its rendered
\* one, and the backup holds the document that was live before.
C16_Witness ==
    /\ pc = "rm"
    /\ nginxConf = nginx_conf
    /\ nginxConf # preConf
    /\ nginxBackup = preConf

\* The run has reached systemctl restart nginx: it is about to call it, or
\* the call has succeeded or failed.
RestartRequested == pc = "restart" \/ nginx_success \/ restart_failed

\* C17: a run reaches the restart of nginx only after nginx -t accepted the
\* document the run wrote; a run whose nginx -t failed goes to the copy back
\* of the backup and from there to its failed return, and never reaches the
\* restart.
C17_RestartGating ==
    /\ RestartRequested =>
          /\ ~test_failed
          /\ nginxConf = nginx_conf
          /\ nginx_test_ok(nginxConf)
    /\ test_failed =>
          /\ pc \in {"restore", "link", "done"}
          /\ ~RestartRequested

\* C17 witness: one finished run was refused by nginx -t and returned
\* without a restart.
C17_Witness ==
    /\ pc = "done"
    /\ report = "installed"
    /\ test_failed
    /\ ~nginx_success
    /\ ~restart_failed

\* C18: when an invocation was killed between its write and its nginx -t,
\* and the next invocation ran to its end and rolled back to the backup, the
\* live document is one nginx accepts or the document that was live before
\* the killed invocation, never the killed invocation's unvalidated one.
C18_CrashSafety ==
    (/\ crashPre # NoFile
     /\ pc = "done"
     /\ report = "installed"
     /\ test_failed
     /\ nginxConf = nginxBackup) =>
        (nginx_test_ok(nginxConf) \/ nginxConf = crashPre)

\* C19: when nginx -t accepted the document and the restart of nginx
\* failed, nothing is copied back: the live document is the one the run
\* wrote, nginx accepts it, and nginx.conf.backup still holds the document
\* that was live before the run.
C19_ActivationAsymmetry ==
    restart_failed =>
        /\ ~test_failed
        /\ nginxConf = nginx_conf
        /\ nginx_test_ok(nginxConf)
        /\ nginxBackup = preConf

\* C19 witness: a finished run whose restart failed left its own document
\* live, different from the one that was live before.
C19_Witness ==
    /\ pc = "done"
    /\ report = "installed"
    /\ restart_failed
    /\ nginxConf = nginx_conf
    /\ nginxConf # preConf

\* C20: a finished run whose front-proxy deployment failed (nginx -t
\* rejected the document, the restart failed or a command raised) has not
\* replaced the content of a config.json that existed before the run.
C20_ConfigFileUntouched ==
    (pc = "done" /\ report = "installed" /\ ~nginx_success) =>
        ~config_overwritten

\* ------------------------------------------------------------------------
\* The client link as text (main, lines 1136-1147). A string is a sequence
\* of one-character strings.

MaxLinkLen == 2

\* Characters the passwords of the model are made of: a letter, and
\* characters that mean something inside a URI.
LinkAlphabet == {"a", "/", "&", "%", "@"}

LinkStrings == UNION {[1..n -> LinkAlphabet] : n \in 1..MaxLinkLen}

\* line 1076: the password main uses when none is given, "123qwe!@#QWE"
default_password_text == <<"1", "2", "3", "q", "w", "e", "!", "@", "#", "Q", "W", "E">>

\* lines 1081-1085: server_address is the --domain or --ip argument, or the
\* address get_ip_address found: a host name or a dotted address.
LinkAddresses == {<<"h", ".", "a">>, <<"1", "0", ".", "0", ".", "0", ".", "7">>}

LinkPorts == {443, 54116}

hexdigits == <<"0", "1", "2", "3", "4", "5", "6", "7", "8", "9", "A", "B", "C", "D", "E", "F">>

\* The code points of the characters of the model that quote() encodes.
ord == [c \in {"!", "#", "%", "&", ":", "=", "?", "@"} |->
           CASE c = "!" -> 33 [] c = "#" -> 35 [] c = "%" -> 37
             [] c = "&" -> 38 [] c = ":" -> 58 [] c = "=" -> 61
             [] c = "?" -> 63 [] c = "@" -> 64]

\* urllib.parse.quote(string, safe='/'): letters, digits and "_.-~" are
\* never quoted, and neither is the default safe character "/"; every other
\* character becomes "%" and its code in two upper-case hex digits.
RECURSIVE quote(_)
quote(s) ==
    IF s = <<>> THEN <<>>
    ELSE (IF Head(s) \in DOMAIN ord
          THEN <<"%", hexdigits[(ord[Head(s)] \div 16) + 1],
                      hexdigits[(ord[Head(s)] % 16) + 1]>>
          ELSE <<Head(s)>>) \o quote(Tail(s))

\* f"{port}": the decimal digits of the port
RECURSIVE str(_)
str(n) ==
    IF n < 10 THEN <<hexdigits[n + 1]>>
    ELSE str(n \div 10) \o <<hexdigits[(n % 10) + 1]>>

RECURSIVE join(_, _)
join(sep, parts) ==
    IF Len(parts) = 0 THEN <<>>
    ELSE IF Len(parts) = 1 THEN parts[1]
    ELSE parts[1] \o sep \o join(sep, Tail(parts))

text_insecure == <<"i", "n", "s", "e", "c", "u", "r", "e", "=">>

text_sni == <<"s", "n", "i", "=">>

text_obfs == <<"o", "b", "f", "s", "=", "s", "a", "l", "a", "m", "a", "n", "d", "e", "r">>

text_obfs_password == <<"o", "b", "f", "s", "-", "p", "a", "s", "s", "w", "o", "r", "d", "=">>

text_scheme == <<"h", "y", "s", "t", "e", "r", "i", "a", "2", ":", "/", "/">>

\* lines 1137-1145: params
link_params(a) ==
    <<text_insecure \o (IF a.use_real_cert THEN <<"0">> ELSE <<"1">>),
      text_sni \o a.address>>
    \o (IF a.obfs_password # <<>>
        THEN <<text_obfs, text_obfs_password \o quote(a.obfs_password)>>
        ELSE <<>>)

\* line 1147: config_link
config_link_text(a) ==
    text_scheme \o quote(a.password) \o <<"@">> \o a.address \o <<":">>
        \o str(a.port) \o <<"?">> \o join(<<"&">>, link_params(a))

\* What a client does with the link: the link is read as the URI
\* scheme://userinfo@host:port?query of RFC 3986, the query as
\* "&"-separated key=value pairs with percent-decoded values.
FirstIndex(s, S) ==
    IF \E i \in 1..Len(s) : s[i] \in S
    THEN CHOOSE i \in 1..Len(s) : s[i] \in S /\ \A j \in 1..(i - 1) : s[j] \notin S
    ELSE 0

LastIndex(s, S) ==
    IF \E i \in 1..Len(s) : s[i] \in S
    THEN CHOOSE i \in 1..Len(s) : s[i] \in S /\ \A j \in (i + 1)..Len(s) : s[j] \notin S
    ELSE 0

IsHex(c) == \E i \in 1..16 : hexdigits[i] = c

hexval(c) == (CHOOSE i \in 1..16 : hexdigits[i] = c) - 1

RECURSIVE unquote(_)
unquote(s) ==
    IF s = <<>> THEN <<>>
    ELSE IF Head(s) = "%" /\ Len(s) >= 3 /\ IsHex(s[2]) /\ IsHex(s[3])
              /\ \E c \in DOMAIN ord : ord[c] = 16 * hexval(s[2]) + hexval(s[3])
    THEN <<CHOOSE c \in DOMAIN ord : ord[c] = 16 * hexval(s[2]) + hexval(s[3])>>
             \o unquote(SubSeq(s, 4, Len(s)))
    ELSE <<Head(s)>> \o unquote(Tail(s))

RECURSIVE split(_, _)
split(s, sep) ==
    LET i == FirstIndex(s, {sep})
    IN  IF i = 0 THEN <<s>>
        ELSE <<SubSeq(s, 1, i - 1)>> \o split(SubSeq(s, i + 1, Len(s)), sep)

RECURSIVE parse_int(_)
parse_int(s) ==
    IF s = <<>> \/ \E i \in 1..Len(s) : ~(\E d \in 1..10 : hexdigits[d] = s[i])
    THEN -1
    ELSE IF Len(s) = 1 THEN hexval(s[1])
    ELSE 10 * parse_int(SubSeq(s, 1, Len(s) - 1)) + hexval(s[Len(s)])

HasPrefix(s, p) == Len(s) >= Len(p) /\ SubSeq(s, 1, Len(p)) = p

\* The decoded value of the first pair of the query whose key is the one
\* key_eq ends; the empty string when there is none.
query_value(pairs, key_eq) ==
    IF \E i \in 1..Len(pairs) : HasPrefix(pairs[i], key_eq)
    THEN LET i == CHOOSE k \in 1..Len(pairs) :
                      /\ HasPrefix(pairs[k], key_eq)
                      /\ \A j \in 1..(k - 1) : ~HasPrefix(pairs[j], key_eq)
         IN  unquote(SubSeq(pairs[i], Len(key_eq) + 1, Len(pairs[i])))
    ELSE <<>>

parse_link(text) ==
    LET rest == SubSeq(text, Len(text_scheme) + 1, Len(text))
        e == FirstIndex(rest, {"/", "?", "#"})
        authority == IF e = 0 THEN rest ELSE SubSeq(rest, 1, e - 1)
        after == IF e = 0 THEN <<>> ELSE SubSeq(rest, e, Len(rest))
        f == FirstIndex(after, {"#"})
        nofrag == IF f = 0 THEN after ELSE SubSeq(after, 1, f - 1)
        q == FirstIndex(nofrag, {"?"})
        query == IF q = 0 THEN <<>> ELSE SubSeq(nofrag, q + 1, Len(nofrag))
        at == LastIndex(authority, {"@"})
        hostport == SubSeq(authority, at + 1, Len(authority))
        c == LastIndex(hostport, {":"})
        pairs == split(query, "&")
    IN  [password |-> IF at = 0 THEN <<>> ELSE unquote(SubSeq(authority, 1, at - 1)),
         address |-> IF c = 0 THEN hostport ELSE SubSeq(hostport, 1, c - 1),
         port |-> IF c = 0 THEN -1 ELSE parse_int(SubSeq(hostport, c + 1, Len(hostport))),
         insecure |-> query_value(pairs, text_insecure),
         sni |-> query_value(pairs, text_sni),
         obfs_password |-> query_value(pairs, text_obfs_password)]

\* The values main builds the link from: the password given or the default
\* one, the server address, the port, the obfuscation password (empty when
\* none is set) and --use-real-cert.
LinkInputs ==
    [password : LinkStrings \cup {default_password_text},
     address : LinkAddresses,
     port : LinkPorts,
     obfs_password : LinkStrings \cup {<<>>},
     use_real_cert : BOOLEAN]

LinkInit ==
    /\ linkIn \in LinkInputs
    /\ linkStr = <<>>
    /\ linkParsed = NoArgs
    /\ synArgs = NoArgs
    /\ synOut = <<>>
    /\ pc = "idle"
    /\ args = NoArgs
    /\ nginxConf = NoFile
    /\ nginxBackup = NoFile
    /\ configFile = NoFile
    /\ accepted = {}
    /\ initialConf = NoFile
    /\ nginx_conf = NoFile
    /\ preConf = NoFile
    /\ test_failed = FALSE
    /\ restart_failed = FALSE
    /\ nginx_success = FALSE
    /\ config_link = NoLink
    /\ report = "none"
    /\ crashed = FALSE
    /\ cert_kind = "none"
    /\ config_overwritten = FALSE
    /\ crashPre = NoFile

\* line 1147: main builds the link.
BuildLink ==
    /\ linkIn # NoArgs
    /\ linkStr = <<>>
    /\ linkStr' = config_link_text(linkIn)
    /\ UNCHANGED <<linkIn, linkParsed, synVars, hostVars, runVars, histVars>>

\* A client reads the link main printed.
ParseLink ==
    /\ linkStr # <<>>
    /\ linkParsed = NoArgs
    /\ linkParsed' = parse_link(linkStr)
    /\ UNCHANGED <<linkIn, linkStr, synVars, hostVars, runVars, histVars>>

LinkNext == BuildLink \/ ParseLink

SpecLink == LinkInit /\ [][LinkNext]_vars

\* C12: for every password, address, port and obfuscation password, reading
\* the link main built as a URI gives back the address, the port and the
\* obfuscation password (none when none was set), and the sni value of the
\* query decodes to the address.
C12_LinkRoundTrip ==
    linkParsed # NoArgs =>
        /\ linkParsed.address = linkIn.address
        /\ linkParsed.port = linkIn.port
        /\ linkParsed.obfs_password = linkIn.obfs_password
        /\ linkParsed.sni = linkIn.address

\* The web root was supplied and exists on disk.
WebRootExists ==
    Truthy(synArgs.custom_web_dir) /\ path_exists(synArgs.custom_web_dir)

GoogleProxy ==
    [type |-> "proxy",
     proxy |-> [url |-> "https://www.google.com", rewriteHost |-> TRUE]]

\* C21 (as stated): on every port, the well-known ones included, http3
\* masquerade on with no web root or one that does not exist gives the proxy
\* masquerade of https://www.google.com with rewriteHost true, and http3
\* masquerade off with a web root that exists gives the file masquerade of
\* that web root.
C21_FirstMatchAnyFlags ==
    \A i \in Calls :
        /\ (synArgs.enable_http3_masquerade /\ ~WebRootExists) =>
              synOut[i].masquerade = GoogleProxy
        /\ (~synArgs.enable_http3_masquerade /\ WebRootExists) =>
              synOut[i].masquerade = file_masquerade(synArgs.custom_web_dir)

\* C21 (amended): as above, the file masquerade being given when web
\* masquerade is enabled (enable_web_masquerade, the default) as well.
C21_FirstMatchWebEnabled ==
    \A i \in Calls :
        /\ (synArgs.enable_http3_masquerade /\ ~WebRootExists) =>
              synOut[i].masquerade = GoogleProxy
        /\ (/\ ~synArgs.enable_http3_masquerade
            /\ synArgs.enable_web_masquerade
            /\ WebRootExists) =>
              synOut[i].masquerade = file_masquerade(synArgs.custom_web_dir)

\* C21 witness: on port 443, with http3 masquerade off and web masquerade
\* enabled, a call served the existing web root.
C21_Witness ==
    \E i \in Calls :
        /\ ~synArgs.enable_http3_masquerade
        /\ synArgs.enable_web_masquerade
        /\ synArgs.custom_web_dir = "/srv/www"
        /\ synArgs.port = 443
        /\ synOut[i].masquerade = file_masquerade("/srv/www")

\* C22: the document has a quic block exactly when the port it listens on
\* is 54116, 17205 or 39670, whatever the flags, the web root and the
\* obfuscation password; when present the block is the fixed parameter set.
C22_QuicTuning ==
    \A i \in Calls :
        /\ "quic" \in DOMAIN synOut[i] <=> synOut[i].listen \in {54116, 17205, 39670}
        /\ "quic" \in DOMAIN synOut[i] =>
              synOut[i].quic =
                  [initStreamReceiveWindow |-> 8388608,
                   maxStreamReceiveWindow |-> 8388608,
                   initConnReceiveWindow |-> 20971520,
                   maxConnReceiveWindow |-> 20971520,
                   maxIdleTimeout |-> "30s",
                   maxIncomingStreams |-> 1024,
                   disablePathMTUDiscovery |-> FALSE]

\* C22 witness: a call on port 39670 with port hopping, obfuscation and
\* http3 masquerade on produced a document with the quic block.
C22_Witness ==
    \E i \in Calls :
        /\ synArgs.port = 39670
        /\ synArgs.enable_port_hopping
        /\ Truthy(synArgs.obfs_password)
        /\ synArgs.enable_http3_masquerade
        /\ "quic" \in DOMAIN synOut[i]

====
